---- MODULE Spec2Model ----
(***************************************************************************)
(* State-machine model of the user-management HTTP service: the users      *)
(* table, the repository, the use-case layer, the validator, the auth      *)
(* middleware and the controller handlers.                                 *)
(*                                                                         *)
(* Representation.  A Python str is a sequence of one-character strings;   *)
(* Python None (for a str-or-None value) is the reserved sequence None.    *)
(* A JSON object is a function from its keys to values.  An HTTP header    *)
(* value is a sequence of header symbols: [ch |-> c] for a character and   *)
(* [jwt |-> t] for a whole compact JWT (a JWT holds no space).             *)
(*                                                                         *)
(* Specifications.  Spec: the payload space, one request at a time.        *)
(* SpecAuth: every header shape, with the clock.  SpecPath: URL routing of *)
(* /api/user/{id}.  SpecSearch: search texts against stored names.         *)
(* SpecValidate: the validator as a function.  SpecConcurrent: repository  *)
(* calls of two threads on the shared connection.  SpecLife: requests,     *)
(* then the stop of the process.  SpecToken: issued tokens used on the     *)
(* protected routes while users come and go.  SpecRace: the existence      *)
(* check and the statement of update and delete in two threads.            *)
(***************************************************************************)
EXTENDS Integers, Sequences, FiniteSets, TLC

\* Largest id the AUTOINCREMENT counter hands out in the explored runs.
MaxId == 2
\* Largest number of distinct login tokens the clients hold.
MaxTokens == 1
\* Last instant of the clock.
MaxTime == 2

\* validators.py: len(password) < 8
MinPasswordLen == 8

(***************************************************************************)
(* Strings                                                                 *)
(***************************************************************************)
None == <<"None">>

Truthy(v) == v # None /\ v # <<>>

UpperCase == <<"A","B","C","D","E","F","G","H","I","J","K","L","M",
               "N","O","P","Q","R","S","T","U","V","W","X","Y","Z">>
LowerCase == <<"a","b","c","d","e","f","g","h","i","j","k","l","m",
               "n","o","p","q","r","s","t","u","v","w","x","y","z">>
Digits == {"0","1","2","3","4","5","6","7","8","9"}
Letters == {UpperCase[i] : i \in 1..26} \cup {LowerCase[i] : i \in 1..26}
Whitespace == {" ", "\t", "\n", "\r"}

\* str.lower() / SQL LOWER() on one ASCII character
LowerCh(c) ==
  IF \E i \in 1..26 : UpperCase[i] = c
    THEN LowerCase[CHOOSE i \in 1..26 : UpperCase[i] = c]
    ELSE c

Lower(s) == [i \in 1..Len(s) |-> LowerCh(s[i])]

\* str.strip()
RECURSIVE LStrip(_)
LStrip(s) == IF s # <<>> /\ Head(s) \in Whitespace THEN LStrip(Tail(s)) ELSE s

RECURSIVE RStrip(_)
RStrip(s) ==
  IF s # <<>> /\ s[Len(s)] \in Whitespace
    THEN RStrip(SubSeq(s, 1, Len(s) - 1))
    ELSE s

Strip(s) == RStrip(LStrip(s))

AllIn(s, from, to, class) == \A k \in from..to : s[k] \in class

\* re.match(r"^[a-zA-Z0-9._%+-]+@[a-zA-Z0-9.-]+\.[a-zA-Z]{2,}$", s):
\* "$" matches at the end and before one trailing newline.
EmailLocalChars == Letters \cup Digits \cup {".", "_", "%", "+", "-"}
EmailDomainChars == Letters \cup Digits \cup {".", "-"}

EmailRegexMatch(s) ==
  \E n \in {Len(s)} \cup (IF s # <<>> /\ s[Len(s)] = "\n" THEN {Len(s) - 1} ELSE {}) :
    \E i \in 2..n : \E j \in (i + 2)..(n - 2) :
      /\ s[i] = "@"
      /\ AllIn(s, 1, i - 1, EmailLocalChars)
      /\ AllIn(s, i + 1, j - 1, EmailDomainChars)
      /\ s[j] = "."
      /\ AllIn(s, j + 1, n, Letters)

(***************************************************************************)
(* Validator                                                               *)
(***************************************************************************)
\* request.get_json() of the body "null"
NullBody == [json |-> "null"]

\* dict.get(key): None when the key is absent
Get(data, key) == IF key \in DOMAIN data THEN data[key] ELSE None

\* "not data": a null body or an empty object
Falsy(data) == "json" \in DOMAIN data \/ DOMAIN data = {}

RequiredErrors(data) ==
  (IF ~Truthy(Get(data, "name")) THEN <<"Name is required.">> ELSE <<>>)
  \o (IF ~Truthy(Get(data, "email")) THEN <<"Email is required.">> ELSE <<>>)
  \o (IF ~Truthy(Get(data, "password")) THEN <<"Password is required.">> ELSE <<>>)

FormatErrors(data) ==
  (IF Truthy(Get(data, "email")) /\ ~EmailRegexMatch(data["email"])
     THEN <<"Invalid email format.">> ELSE <<>>)
  \o (IF Truthy(Get(data, "password")) /\ Len(data["password"]) < MinPasswordLen
        THEN <<"Password must be at least 8 characters long.">> ELSE <<>>)
  \o (IF Truthy(Get(data, "name")) /\ Len(Strip(data["name"])) = 0
        THEN <<"Name cannot be empty.">> ELSE <<>>)

validate_user_payload(data, create) ==
  IF Falsy(data) THEN <<"No data provided in the request body.">>
  ELSE IF create /\ RequiredErrors(data) # <<>> THEN RequiredErrors(data)
  ELSE FormatErrors(data)

\* request.get_json() of a body that is a non-empty JSON array
ArrayBody == [json |-> "array"]

\* One call of validate_user_payload: the list it returns, or the exception it
\* lets out.  A non-empty list is truthy and has no get(): create mode raises at
\* data.get("name"); in update mode every '"key" in data' test is false.
validate_user_payload_call(data, create) ==
  IF "json" \in DOMAIN data /\ data.json = "array"
    THEN IF create THEN [exc |-> "AttributeError", errors |-> <<>>]
                   ELSE [exc |-> "none", errors |-> <<>>]
    ELSE [exc |-> "none", errors |-> validate_user_payload(data, create)]

(***************************************************************************)
(* Password hashing (werkzeug.security) and JWT (PyJWT)                    *)
(***************************************************************************)
\* The random salts generate_password_hash may draw.
Salts == {"s1", "s2"}

NoneHash == [method |-> "none"]

\* generate_password_hash(password, method='pbkdf2:sha256') with the salt drawn
generate_password_hash(password, salt) ==
  [method |-> "pbkdf2:sha256", salt |-> salt, digest |-> password]

\* check_password_hash(pwhash, password): re-derive with the stored salt, compare
check_password_hash(pwhash, password) ==
  pwhash = generate_password_hash(password, pwhash.salt)

JWT_SECRET_KEY == "default-jwt-secret-key-change-me"

\* jwt.encode(payload, key, algorithm='HS256'): a deterministic function of both
jwt_encode(payload, key) == [payload |-> payload, key |-> key]

\* jwt.decode(token, key, algorithms=['HS256']) at clock t; token is the header
\* substring handed to it.
jwt_decode(token, key, t) ==
  IF Len(token) # 1 \/ "jwt" \notin DOMAIN token[1]
    THEN [exc |-> "InvalidTokenError", msg |-> "Not enough segments"]
  ELSE IF token[1].jwt.key # key
    THEN [exc |-> "InvalidTokenError", msg |-> "Signature verification failed"]
  ELSE IF "exp" \in DOMAIN token[1].jwt.payload /\ token[1].jwt.payload["exp"] <= t
    THEN [exc |-> "ExpiredSignatureError", msg |-> "Signature has expired"]
  ELSE [exc |-> "none", data |-> token[1].jwt.payload]

(***************************************************************************)
(* Repository: the users table is a set of rows, seq the AUTOINCREMENT     *)
(* counter (the largest id handed out so far).                             *)
(***************************************************************************)
NoneUser == [id |-> 0]

Row(id, name, email, password) ==
  [id |-> id, name |-> name, email |-> email, password |-> password]

RECURSIVE SortById(_)
SortById(rows) ==
  IF rows = {} THEN <<>>
  ELSE LET r == CHOOSE x \in rows : \A y \in rows : x.id <= y.id
       IN <<r>> \o SortById(rows \ {r})

UserRepository_get_all_users(db) == SortById(db)

UserRepository_get_user_by_id(db, user_id) ==
  IF \E r \in db : r.id = user_id
    THEN CHOOSE r \in db : r.id = user_id
    ELSE NoneUser

UserRepository_get_user_by_email(db, email) ==
  IF \E r \in db : r.email = email
    THEN CHOOSE r \in db : r.email = email
    ELSE NoneUser

\* INSERT INTO users (name, email, password): email is UNIQUE, the id is seq + 1
\* and is consumed only when the statement succeeds.
UserRepository_create_user_NoUnique(db, seq, name, email, password) ==
  [exc |-> "none", seq |-> seq + 1,
   db |-> db \cup {Row(seq + 1, name, email, password)}]

UserRepository_create_user(db, seq, name, email, password) ==
  IF \E r \in db : r.email = email
    THEN [exc |-> "IntegrityError", db |-> db, seq |-> seq]
    ELSE [exc |-> "none", seq |-> seq + 1,
          db |-> db \cup {Row(seq + 1, name, email, password)}]

\* The row after "UPDATE users SET <the non-None fields>"
SetFields(r, name, email, password) ==
  [r EXCEPT !.name = IF name # None THEN name ELSE @,
            !.email = IF email # None THEN email ELSE @,
            !.password = IF password # NoneHash THEN password ELSE @]

\* update_user whose UPDATE has lost its WHERE clause
UserRepository_update_user_NoWhere(db, user_id, name, email, password) ==
  IF name = None /\ email = None /\ password = NoneHash
    THEN [exc |-> "none", db |-> db, ran |-> FALSE]
    ELSE [exc |-> "none", ran |-> TRUE,
          db |-> {SetFields(r, name, email, password) : r \in db}]

\* update_user whose failed UPDATE is not rolled back: the other columns of the
\* statement stay written
UserRepository_update_user_NoRollback(db, user_id, name, email, password) ==
  IF name = None /\ email = None /\ password = NoneHash
    THEN [exc |-> "none", db |-> db, ran |-> FALSE]
  ELSE IF /\ email # None
          /\ \E r \in db : r.id = user_id
          /\ \E r \in db : r.id # user_id /\ r.email = email
    THEN [exc |-> "IntegrityError", ran |-> TRUE,
          db |-> {IF r.id = user_id THEN SetFields(r, name, None, password) ELSE r
                  : r \in db}]
  ELSE [exc |-> "none", ran |-> TRUE,
        db |-> {IF r.id = user_id THEN SetFields(r, name, email, password) ELSE r
                : r \in db}]

\* update_user: no statement at all when every field is None; otherwise one
\* UPDATE ... WHERE id=?, rejected as a whole when it would duplicate an email.
UserRepository_update_user(db, user_id, name, email, password) ==
  IF name = None /\ email = None /\ password = NoneHash
    THEN [exc |-> "none", db |-> db, ran |-> FALSE]
  ELSE IF /\ email # None
          /\ \E r \in db : r.id = user_id
          /\ \E r \in db : r.id # user_id /\ r.email = email
    THEN [exc |-> "IntegrityError", db |-> db, ran |-> TRUE]
  ELSE [exc |-> "none", ran |-> TRUE,
        db |-> {IF r.id = user_id THEN SetFields(r, name, email, password) ELSE r
                : r \in db}]

\* delete_user that leaves the row in the table
UserRepository_delete_user_Tombstone(db, user_id) == db

\* DELETE FROM users WHERE id=?
UserRepository_delete_user(db, user_id) == {r \in db : r.id # user_id}

\* SQLite LIKE: "%" any run of characters, "_" any one character, ASCII letters
\* compared without case.
RECURSIVE Like(_, _)
Like(pattern, text) ==
  IF pattern = <<>> THEN text = <<>>
  ELSE IF Head(pattern) = "%"
    THEN Like(Tail(pattern), text) \/ (text # <<>> /\ Like(pattern, Tail(text)))
  ELSE /\ text # <<>>
       /\ (Head(pattern) = "_" \/ LowerCh(Head(pattern)) = LowerCh(Head(text)))
       /\ Like(Tail(pattern), Tail(text))

\* SELECT ... WHERE LOWER(name) LIKE '%' + name.lower() + '%'
UserRepository_search_users_by_name(db, name) ==
  SortById({r \in db : Like(<<"%">> \o Lower(name) \o <<"%">>, Lower(r.name))})

\* to_dict that also serializes the password column
to_dict_WithPassword(u) ==
  [id |-> u.id, name |-> u.name, email |-> u.email, password |-> u.password]

\* User.to_dict
to_dict(u) == [id |-> u.id, name |-> u.name, email |-> u.email]

ToDicts(us) == [i \in 1..Len(us) |-> to_dict(us[i])]

(***************************************************************************)
(* Auth middleware                                                         *)
(***************************************************************************)
Ch(c) == [ch |-> c]
Str(s) == [i \in 1..Len(s) |-> Ch(s[i])]

StartsWith(s, prefix) ==
  Len(s) >= Len(prefix) /\ SubSeq(s, 1, Len(prefix)) = prefix

\* str.split(sep): every occurrence of sep cuts, empty pieces are kept
RECURSIVE Split(_, _)
Split(s, sep) ==
  IF \E i \in 1..Len(s) : s[i] = sep
    THEN LET i == CHOOSE k \in 1..Len(s) : s[k] = sep /\ \A m \in 1..(k - 1) : s[m] # sep
         IN <<SubSeq(s, 1, i - 1)>> \o Split(SubSeq(s, i + 1, Len(s)), sep)
    ELSE <<s>>

BearerPrefix == Str(<<"B", "e", "a", "r", "e", "r", " ">>)

NoneToken == <<[none |-> TRUE]>>

\* Lines 26-34 of token_required: the token taken from the Authorization header
ExtractToken(headers) ==
  IF "Authorization" \notin DOMAIN headers
    THEN [exc |-> "none", token |-> NoneToken]
  ELSE IF ~StartsWith(headers["Authorization"], BearerPrefix)
    THEN [exc |-> "none", token |-> NoneToken]
  ELSE IF Len(Split(headers["Authorization"], Ch(" "))) < 2
    THEN [exc |-> "IndexError", token |-> NoneToken]
  ELSE [exc |-> "none", token |-> Split(headers["Authorization"], Ch(" "))[2]]

InvalidTokenText(msg) ==
  IF msg = "Not enough segments"
    THEN "Invalid Token: Not enough segments"
    ELSE "Invalid Token: Signature verification failed"

Denied(body) == [ok |-> FALSE, status |-> 401, body |-> body]

\* token_required with the signature check left out of jwt.decode
token_required_NoSignatureCheck(headers, t) ==
  LET x == ExtractToken(headers) IN
  IF x.token = NoneToken \/ x.token = <<>>
    THEN Denied([error |-> "Authentication Token is missing!"])
  ELSE IF Len(x.token) # 1 \/ "jwt" \notin DOMAIN x.token[1]
    THEN Denied([error |-> "Invalid Token: Not enough segments"])
  ELSE [ok |-> TRUE, status |-> 200, current_user |-> x.token[1].jwt.payload]

\* The decorator's decision for a request with these headers at clock t
token_required(headers, t) ==
  LET x == ExtractToken(headers) IN
  IF x.exc = "IndexError"
    THEN Denied([error |-> "Malformed Authorization header"])
  ELSE IF x.token = NoneToken \/ x.token = <<>>
    THEN Denied([error |-> "Authentication Token is missing!"])
  ELSE LET d == jwt_decode(x.token, JWT_SECRET_KEY, t) IN
    IF d.exc = "ExpiredSignatureError"
      THEN Denied([error |-> "Token has expired"])
    ELSE IF d.exc = "InvalidTokenError"
      THEN Denied([error |-> InvalidTokenText(d.msg)])
    ELSE IF {"id", "email"} \subseteq DOMAIN d.data
      THEN [ok |-> TRUE, status |-> 200,
            current_user |-> [id |-> d.data["id"], email |-> d.data["email"]]]
    ELSE Denied([error |-> "Token processing failed",
                 details |-> "An unexpected error occurred."])

(***************************************************************************)
(* Use-case layer                                                          *)
(***************************************************************************)
\* create_user that lower-cases the name before storing it
UserUseCase_create_user_LowerName(db, seq, name, email, password, salt) ==
  IF ~(Truthy(name) /\ Truthy(email) /\ Truthy(password))
    THEN [exc |-> "ValueError", db |-> db, seq |-> seq]
    ELSE UserRepository_create_user(db, seq, Lower(name), email,
                                    generate_password_hash(password, salt))

UserUseCase_create_user(db, seq, name, email, password, salt) ==
  IF ~(Truthy(name) /\ Truthy(email) /\ Truthy(password))
    THEN [exc |-> "ValueError", db |-> db, seq |-> seq]
    ELSE UserRepository_create_user(db, seq, name, email,
                                    generate_password_hash(password, salt))

UserUseCase_update_user(db, user_id, name, email, password, salt) ==
  IF ~(Truthy(name) \/ Truthy(email) \/ Truthy(password))
    THEN [exc |-> "ValueError", db |-> db, ran |-> FALSE]
    ELSE UserRepository_update_user(db, user_id, name, email,
           IF Truthy(password) THEN generate_password_hash(password, salt)
                               ELSE NoneHash)

NoneJwt == [jwt |-> "none"]

UserUseCase_login_user(db, email, password) ==
  LET user == UserRepository_get_user_by_email(db, email) IN
  IF user # NoneUser /\ check_password_hash(user.password, password)
    THEN jwt_encode([id |-> user.id, email |-> user.email], JWT_SECRET_KEY)
    ELSE NoneJwt

(***************************************************************************)
(* Controller: each handler gives the response, the table and counter it   *)
(* leaves, and the repository statements it ran.                           *)
(***************************************************************************)
Result(status, json, body, db, seq, ops) ==
  [status |-> status, json |-> json, body |-> body, db |-> db, seq |-> seq,
   ops |-> ops, token |-> NoneJwt]

\* The decorator returned before calling the handler
Rejected(a, db, seq) == Result(a.status, "object", a.body, db, seq, <<>>)

\* get_all_users that also requires the token's user to be stored
UserController_get_all_users_ChecksUser(db, seq, headers, t) ==
  LET a == token_required(headers, t) IN
  IF ~a.ok THEN Rejected(a, db, seq)
  ELSE IF ~\E u \in db : u.id = a.current_user.id
    THEN Rejected(Denied([error |-> "Invalid Token: user no longer exists"]), db, seq)
  ELSE Result(200, "array", ToDicts(UserRepository_get_all_users(db)), db, seq,
              <<"SELECT">>)

UserController_get_all_users(db, seq, headers, t) ==
  LET a == token_required(headers, t) IN
  IF ~a.ok THEN Rejected(a, db, seq)
  ELSE Result(200, "array", ToDicts(UserRepository_get_all_users(db)), db, seq,
              <<"SELECT">>)

UserController_get_user(db, seq, headers, t, user_id) ==
  LET a == token_required(headers, t)
      user == UserRepository_get_user_by_id(db, user_id) IN
  IF ~a.ok THEN Rejected(a, db, seq)
  ELSE IF user = NoneUser
    THEN Result(404, "object", [error |-> "User not found"], db, seq, <<"SELECT">>)
  ELSE Result(200, "object", to_dict(user), db, seq, <<"SELECT">>)

\* create_user without the "except sqlite3.IntegrityError" clause
UserController_create_user_NoConflictClause(db, seq, data, salt) ==
  LET errors == validate_user_payload(data, TRUE)
      r == UserUseCase_create_user(db, seq, Get(data, "name"), Get(data, "email"),
                                   Get(data, "password"), salt) IN
  IF errors # <<>>
    THEN Result(400, "object", [errors |-> errors], db, seq, <<>>)
  ELSE IF r.exc # "none"
    THEN Result(500, "object",
                [error |-> "Failed to create user",
                 details |-> "An internal server error occurred."], db, seq, <<>>)
  ELSE Result(201, "object", [message |-> "User created successfully"],
              r.db, r.seq, <<"INSERT">>)

UserController_create_user(db, seq, data, salt) ==
  LET errors == validate_user_payload(data, TRUE)
      r == UserUseCase_create_user(db, seq, Get(data, "name"), Get(data, "email"),
                                   Get(data, "password"), salt) IN
  IF errors # <<>>
    THEN Result(400, "object", [errors |-> errors], db, seq, <<>>)
  ELSE IF r.exc = "IntegrityError"
    THEN Result(409, "object", [error |-> "User with this email already exists"],
                db, seq, <<"INSERT">>)
  ELSE IF r.exc = "ValueError"
    THEN Result(500, "object",
                [error |-> "Failed to create user",
                 details |-> "An internal server error occurred."], db, seq, <<>>)
  ELSE Result(201, "object", [message |-> "User created successfully"],
              r.db, r.seq, <<"INSERT">>)

\* update_user that looks the user up before it validates the body
UserController_update_user_ExistenceFirst(db, seq, headers, t, user_id, data, salt) ==
  LET a == token_required(headers, t)
      errors == validate_user_payload(data, FALSE)
      name == Get(data, "name")
      email == Get(data, "email")
      password == Get(data, "password")
      r == UserUseCase_update_user(db, user_id, name, email, password, salt) IN
  IF ~a.ok THEN Rejected(a, db, seq)
  ELSE IF UserRepository_get_user_by_id(db, user_id) = NoneUser
    THEN Result(404, "object", [error |-> "User not found for update"],
                db, seq, <<"SELECT">>)
  ELSE IF errors # <<>>
    THEN Result(400, "object", [errors |-> errors], db, seq, <<"SELECT">>)
  ELSE IF ~(Truthy(name) \/ Truthy(email) \/ Truthy(password))
    THEN Result(400, "object", [error |-> "No fields provided for update"],
                db, seq, <<"SELECT">>)
  ELSE IF r.exc = "IntegrityError"
    THEN Result(409, "object", [error |-> "Email already exists for another user"],
                r.db, seq, <<"SELECT", "UPDATE">>)
  ELSE Result(200, "object", [message |-> "User updated successfully"], r.db, seq,
              <<"SELECT", "UPDATE">>)

UserController_update_user(db, seq, headers, t, user_id, data, salt) ==
  LET a == token_required(headers, t)
      errors == validate_user_payload(data, FALSE)
      name == Get(data, "name")
      email == Get(data, "email")
      password == Get(data, "password")
      r == UserUseCase_update_user(db, user_id, name, email, password, salt) IN
  IF ~a.ok THEN Rejected(a, db, seq)
  ELSE IF errors # <<>>
    THEN Result(400, "object", [errors |-> errors], db, seq, <<>>)
  ELSE IF ~(Truthy(name) \/ Truthy(email) \/ Truthy(password))
    THEN Result(400, "object", [error |-> "No fields provided for update"],
                db, seq, <<>>)
  ELSE IF UserRepository_get_user_by_id(db, user_id) = NoneUser
    THEN Result(404, "object", [error |-> "User not found for update"],
                db, seq, <<"SELECT">>)
  ELSE IF r.exc = "ValueError"
    THEN Result(400, "object",
                [error |-> "Invalid user ID format. Must be an integer."],
                db, seq, <<"SELECT">>)
  ELSE IF r.exc = "IntegrityError"
    THEN Result(409, "object", [error |-> "Email already exists for another user"],
                r.db, seq, <<"SELECT", "UPDATE">>)
  ELSE Result(200, "object", [message |-> "User updated successfully"], r.db, seq,
              IF r.ran THEN <<"SELECT", "UPDATE">> ELSE <<"SELECT">>)

\* delete_user that lets a user delete only itself
UserController_delete_user_OwnerOnly(db, seq, headers, t, user_id) ==
  LET a == token_required(headers, t) IN
  IF ~a.ok THEN Rejected(a, db, seq)
  ELSE IF a.current_user.id # user_id
    THEN Result(403, "object", [error |-> "Forbidden"], db, seq, <<>>)
  ELSE IF UserRepository_get_user_by_id(db, user_id) = NoneUser
    THEN Result(404, "object", [error |-> "User not found for deletion"],
                db, seq, <<"SELECT">>)
  ELSE Result(200, "object", [message |-> "User deleted successfully"],
              UserRepository_delete_user(db, user_id), seq, <<"SELECT", "DELETE">>)

UserController_delete_user(db, seq, headers, t, user_id) ==
  LET a == token_required(headers, t) IN
  IF ~a.ok THEN Rejected(a, db, seq)
  ELSE IF UserRepository_get_user_by_id(db, user_id) = NoneUser
    THEN Result(404, "object", [error |-> "User not found for deletion"],
                db, seq, <<"SELECT">>)
  ELSE Result(200, "object", [message |-> "User deleted successfully"],
              UserRepository_delete_user(db, user_id), seq, <<"SELECT", "DELETE">>)

\* request.args.get('name')
UserController_search_users(db, seq, headers, t, args) ==
  LET a == token_required(headers, t)
      name == Get(args, "name") IN
  IF ~a.ok THEN Rejected(a, db, seq)
  ELSE IF ~Truthy(name)
    THEN Result(400, "object",
                [error |-> "Search term \"name\" query parameter is required"],
                db, seq, <<>>)
  ELSE Result(200, "array", ToDicts(UserRepository_search_users_by_name(db, name)),
              db, seq, <<"SELECT">>)

\* data.get('email') on a null body raises before the "not data" test and is
\* answered by the error middleware's handle_unexpected_error.
UserController_login_user(db, seq, data) ==
  LET email == Get(data, "email")
      password == Get(data, "password")
      token == UserUseCase_login_user(db, email, password) IN
  IF "json" \in DOMAIN data
    THEN Result(500, "object",
                [error |-> "An unexpected error occurred",
                 message |-> "Please try again later."], db, seq, <<>>)
  ELSE IF Falsy(data)
    THEN Result(400, "object", [error |-> "No login data provided"], db, seq, <<>>)
  ELSE IF ~Truthy(email) \/ ~Truthy(password)
    THEN Result(400, "object", [error |-> "Email and password are required"],
                db, seq, <<>>)
  ELSE IF token # NoneJwt
    THEN [Result(200, "object", [token |-> token], db, seq, <<"SELECT">>)
            EXCEPT !.token = token]
  ELSE Result(401, "object", [error |-> "Invalid credentials"], db, seq, <<"SELECT">>)

(***************************************************************************)
(* Request inputs                                                          *)
(***************************************************************************)
NameAl == <<"A", "l">>
NameBo == <<"B", "o">>
NameBlank == <<" ">>
EmailA == <<"a", "@", "b", ".", "c", "c">>
EmailC == <<"c", "@", "b", ".", "c", "c">>
EmailBad == <<"a", "@", "b", ".", "c">>
Password1 == <<"p", "a", "s", "s", "w", "o", "r", "d">>
Password2 == <<"s", "e", "c", "r", "e", "t", "4", "5">>
PasswordShort == <<"p", "w">>

User3(name, email, password) ==
  [name |-> name, email |-> email, password |-> password]

\* JSON bodies sent to POST /api/users and PUT /api/user/{id}
Bodies ==
  { NullBody, <<>>,
    User3(NameAl, EmailA, Password1), User3(NameBo, EmailC, Password1),
    User3(NameAl, EmailBad, Password1), User3(NameAl, EmailA, PasswordShort),
    User3(NameBlank, EmailA, Password1),
    [name |-> NameBo], [email |-> EmailC], [password |-> Password1],
    [name |-> <<>>], [name |-> <<>>, email |-> EmailC],
    [name |-> NameAl, email |-> <<>>], [name |-> NameBo, password |-> <<>>] }

\* JSON bodies sent to POST /api/login
LoginBodies ==
  { NullBody, <<>>,
    [email |-> EmailA, password |-> Password1],
    [email |-> EmailA, password |-> Password2],
    [email |-> EmailBad, password |-> Password1],
    [email |-> <<>>, password |-> Password1],
    [email |-> EmailC] }

\* Query strings of GET /api/search
Queries == { <<>>, [name |-> <<>>], [name |-> <<"b">>], [name |-> <<"L">>] }

\* Path ids: every id the table can hold and one it cannot
PathIds == 1..(MaxId + 1)

NoHeaders == <<>>
Authorization(value) == [Authorization |-> value]
Bearer(token) == Authorization(BearerPrefix \o <<[jwt |-> token]>>)

\* Tokens that were not returned by the login handler
ForgedToken == jwt_encode([id |-> 1, email |-> EmailA], "another-key")
ExpiringToken == jwt_encode([id |-> 1, email |-> EmailA, exp |-> 1], JWT_SECRET_KEY)
NoClaimsToken == jwt_encode([id |-> 1], JWT_SECRET_KEY)

\* Headers of a client that either sends none or a token it got from login
ClientHeaders(tokens) == {NoHeaders} \cup {Bearer(tk) : tk \in tokens}

\* Headers of every shape the middleware tells apart
AnyHeaders(tokens) ==
  ClientHeaders(tokens) \cup
  { Authorization(BearerPrefix),
    Authorization(Str(<<"B", "e", "a", "r", "e", "r">>)),
    Authorization(BearerPrefix \o <<Ch(" "), [jwt |-> ForgedToken]>>),
    Authorization(Str(<<"B", "a", "s", "i", "c", " ">>) \o <<[jwt |-> ExpiringToken]>>),
    Authorization(BearerPrefix \o Str(<<"x", ".", "y">>)),
    Bearer(ForgedToken), Bearer(ExpiringToken), Bearer(NoClaimsToken) }

(***************************************************************************)
(* State                                                                   *)
(***************************************************************************)
VARIABLES
  users,        \* the rows of the users table
  seq,          \* the AUTOINCREMENT counter of the table
  issued,       \* the tokens login has returned to clients
  now,          \* the clock jwt.decode reads
  config_repo,  \* app.config['USER_REPOSITORY_INSTANCE']: "open" or "None"
  req,          \* the request being served, NoReq between requests
  resp,         \* the response to req
  ops,          \* the repository statements run for req
  txn,          \* the open transaction of the handlers' connection, if any
  calls,        \* per thread, the repository call it is in
  repo_conn,    \* the connection of the handlers' repository: "open" or "closed"
  serving       \* the process is serving requests

vars == <<users, seq, issued, now, config_repo, req, resp, ops,
          txn, calls, repo_conn, serving>>

\* The threads of the serving layer that run handlers at the same time
Threads == {"t1", "t2"}

\* No transaction is open on the connection
NoTxn == [open |-> FALSE]

\* The thread is in no repository call
NoCall == [pc |-> "idle"]

NoReq == [route |-> "none"]
NoResp == [status |-> 0]

Request(route, headers, user_id, data, args) ==
  [route |-> route, headers |-> headers, user_id |-> user_id, data |-> data,
   args |-> args]

Init ==
  /\ users = {}
  /\ seq = 0
  /\ issued = {}
  /\ now = 0
  /\ config_repo = "open"
  /\ req = NoReq
  /\ resp = NoResp
  /\ ops = <<>>
  /\ txn = NoTxn
  /\ calls = [t \in Threads |-> NoCall]
  /\ repo_conn = "open"
  /\ serving = TRUE

\* The serving of one request: r is the handler's result
Serve(rq, result) ==
  /\ serving
  /\ req = NoReq
  /\ \E r \in {result} :
       /\ r.seq <= MaxId
       /\ Cardinality(issued \cup ({r.token} \ {NoneJwt})) <= MaxTokens
       /\ req' = rq
       /\ resp' = [status |-> r.status, json |-> r.json, body |-> r.body]
       /\ ops' = r.ops
       /\ users' = r.db
       /\ seq' = r.seq
       /\ issued' = issued \cup ({r.token} \ {NoneJwt})
  /\ UNCHANGED <<now, config_repo, txn, calls, repo_conn, serving>>

GetAllUsers(headers) ==
  Serve(Request("get_all_users", headers, 0, NullBody, <<>>),
        UserController_get_all_users(users, seq, headers, now))

GetUser(headers, user_id) ==
  Serve(Request("get_user", headers, user_id, NullBody, <<>>),
        UserController_get_user(users, seq, headers, now, user_id))

CreateUser(data, salt) ==
  Serve(Request("create_user", NoHeaders, 0, data, <<>>),
        UserController_create_user(users, seq, data, salt))

UpdateUser(headers, user_id, data, salt) ==
  Serve(Request("update_user", headers, user_id, data, <<>>),
        UserController_update_user(users, seq, headers, now, user_id, data, salt))

DeleteUser(headers, user_id) ==
  Serve(Request("delete_user", headers, user_id, NullBody, <<>>),
        UserController_delete_user(users, seq, headers, now, user_id))

SearchUsers(headers, args) ==
  Serve(Request("search_users", headers, 0, NullBody, args),
        UserController_search_users(users, seq, headers, now, args))

LoginUser(data) ==
  Serve(Request("login_user", NoHeaders, 0, data, <<>>),
        UserController_login_user(users, seq, data))

\* The request is over: Flask pops its contexts and runs close_db_connection,
\* which closes the repository kept in app.config and forgets it.
Teardown ==
  /\ req # NoReq
  /\ req' = NoReq
  /\ resp' = NoResp
  /\ ops' = <<>>
  /\ config_repo' = "None"
  /\ UNCHANGED <<users, seq, issued, now, txn, calls, repo_conn, serving>>

Tick ==
  /\ req = NoReq
  /\ now < MaxTime
  /\ now' = now + 1
  /\ UNCHANGED <<users, seq, issued, config_repo, req, resp, ops,
                 txn, calls, repo_conn, serving>>

\* The salt is drawn only when a password is hashed
SaltsFor(data) == IF Truthy(Get(data, "password")) THEN Salts ELSE {"s1"}

\* Clients that hold login tokens, over the whole payload space.  A PUT is sent
\* with a token; the other protected routes are also tried without one.
Next ==
  \/ \E data \in Bodies : \E salt \in SaltsFor(data) : CreateUser(data, salt)
  \/ \E data \in LoginBodies : LoginUser(data)
  \/ \E h \in ClientHeaders(issued) : GetAllUsers(h)
  \/ \E h \in ClientHeaders(issued) : \E id \in PathIds : GetUser(h, id)
  \/ \E tk \in issued : \E id \in PathIds : \E data \in Bodies :
       \E salt \in SaltsFor(data) : UpdateUser(Bearer(tk), id, data, salt)
  \/ \E h \in ClientHeaders(issued) : \E id \in PathIds : DeleteUser(h, id)
  \/ \E h \in ClientHeaders(issued) : \E q \in Queries : SearchUsers(h, q)
  \/ Teardown

Spec == Init /\ [][Next]_vars

\* Payloads of the runs that explore the header space
AuthCreateBodies == { User3(NameAl, EmailA, Password1) }
AuthLoginBodies ==
  { [email |-> EmailA, password |-> Password1],
    [email |-> EmailA, password |-> Password2] }
AuthUpdateBodies == { NullBody, [name |-> NameBo] }
AuthQueries == { <<>>, [name |-> <<"b">>] }

\* Every header shape on every protected route, while the clock advances
NextAuth ==
  \/ \E data \in AuthCreateBodies : \E salt \in SaltsFor(data) : CreateUser(data, salt)
  \/ \E data \in AuthLoginBodies : LoginUser(data)
  \/ \E h \in AnyHeaders(issued) : GetAllUsers(h)
  \/ \E h \in AnyHeaders(issued) : \E id \in PathIds : GetUser(h, id)
  \/ \E h \in AnyHeaders(issued) : \E id \in PathIds : \E data \in AuthUpdateBodies :
       UpdateUser(h, id, data, "s1")
  \/ \E h \in AnyHeaders(issued) : \E id \in PathIds : DeleteUser(h, id)
  \/ \E h \in AnyHeaders(issued) : \E q \in AuthQueries : SearchUsers(h, q)
  \/ Teardown
  \/ Tick

SpecAuth == Init /\ [][NextAuth]_vars

(***************************************************************************)
(* URL routing of /api/user/<int:user_id>                                  *)
(***************************************************************************)
DigitSeq == <<"0", "1", "2", "3", "4", "5", "6", "7", "8", "9">>

\* The int converter of the URL rule matches the regular expression \d+
IntegerConverter_matches(segment) ==
  segment # <<>> /\ \A i \in 1..Len(segment) : segment[i] \in Digits

\* int(value) of a matched path segment
RECURSIVE IntegerConverter_to_python(_)
IntegerConverter_to_python(segment) ==
  IF segment = <<>> THEN 0
  ELSE 10 * IntegerConverter_to_python(SubSeq(segment, 1, Len(segment) - 1))
       + (CHOOSE d \in 1..10 : DigitSeq[d] = segment[Len(segment)]) - 1

\* errorhandler(404): the answer to a URL that matches no rule
not_found(db, sq) ==
  Result(404, "object",
         [error |-> "Resource Not Found",
          message |-> "404 Not Found: The requested URL was not found on the server."],
         db, sq, <<>>)

\* The HTTP methods the rules of /api/user/<int:user_id> accept
UserMethods == {"GET", "PUT", "DELETE"}

\* Path segments sent in the place of {id}
Segments ==
  { <<"1">>, <<"2">>, <<"0", "1">>, <<"9">>, <<"a", "b", "c">>, <<"1", "x">> }

\* One request "method /api/user/segment": the URL map matches the segment with
\* the int converter and calls the view with the converted id, or no rule
\* matches and the 404 handler answers.
DispatchUser(method, segment, headers, data) ==
  LET sent == [method |-> method, segment |-> segment]
      user_id == IntegerConverter_to_python(segment) IN
  IF ~IntegerConverter_matches(segment)
    THEN Serve(Request("not_found", headers, 0, data, <<>>) @@ sent,
               not_found(users, seq))
  ELSE IF method = "GET"
    THEN Serve(Request("get_user", headers, user_id, data, <<>>) @@ sent,
               UserController_get_user(users, seq, headers, now, user_id))
  ELSE IF method = "PUT"
    THEN Serve(Request("update_user", headers, user_id, data, <<>>) @@ sent,
               UserController_update_user(users, seq, headers, now, user_id, data, "s1"))
  ELSE Serve(Request("delete_user", headers, user_id, data, <<>>) @@ sent,
             UserController_delete_user(users, seq, headers, now, user_id))

PathCreateBodies == { User3(NameAl, EmailA, Password1), User3(NameBo, EmailC, Password1) }

\* Requests on /api/user/{id} with every kind of path segment
NextPath ==
  \/ \E data \in PathCreateBodies : CreateUser(data, "s1")
  \/ \E data \in AuthLoginBodies : LoginUser(data)
  \/ \E m \in UserMethods : \E sg \in Segments : \E h \in ClientHeaders(issued) :
       \E data \in (IF m = "PUT" THEN AuthUpdateBodies ELSE {NullBody}) :
         DispatchUser(m, sg, h, data)
  \/ Teardown

SpecPath == Init /\ [][NextPath]_vars

\* Names stored and texts searched in the runs that explore the search route
NameUnderscore == <<"a", "_", "L">>
SearchNames == {NameAl, NameBo, NameUnderscore}
SearchCreateBodies ==
  {User3(n, e, Password1) : n \in SearchNames, e \in {EmailA, EmailC}}
SearchQueries ==
  {[name |-> text] :
     text \in {<<"l">>, <<"L">>, <<"A", "L">>, <<"x">>, <<"o">>,
                <<"_">>, <<"%">>, <<"a", "_">>}}

\* Stores of every content, searched with every text
NextSearch ==
  \/ \E data \in SearchCreateBodies : CreateUser(data, "s1")
  \/ \E data \in AuthLoginBodies : LoginUser(data)
  \/ \E h \in ClientHeaders(issued) : \E q \in SearchQueries : SearchUsers(h, q)
  \/ \E h \in ClientHeaders(issued) : \E id \in PathIds : DeleteUser(h, id)
  \/ Teardown

SpecSearch == Init /\ [][NextSearch]_vars

\* Payloads handed to the validator: null, a non-empty array, and every object
\* over the three fields with each field absent, empty, malformed or well-formed.
EmailNewline == EmailA \o <<"\n">>
FieldValues(key) ==
  IF key = "name" THEN {<<>>, NameBlank, NameAl}
  ELSE IF key = "email" THEN {<<>>, EmailBad, EmailA, EmailNewline}
  ELSE {<<>>, PasswordShort, Password1}

ValidatorPayloads ==
  {NullBody, ArrayBody} \cup
  UNION { {f \in [K -> UNION {FieldValues(k) : k \in K}] :
             \A k \in K : f[k] \in FieldValues(k)}
          : K \in SUBSET {"name", "email", "password"} }

\* One call validate_user_payload(data, create=create); req and resp hold the
\* arguments and the outcome of the latest call.
Validate(data, create) ==
  /\ req.route \in {"none", "validate"}
  /\ req' = [route |-> "validate", data |-> data, create |-> create]
  /\ resp' = [status |-> 0] @@ validate_user_payload_call(data, create)
  /\ UNCHANGED <<users, seq, issued, now, config_repo, ops,
                 txn, calls, repo_conn, serving>>

NextValidate ==
  \E data \in ValidatorPayloads : \E create \in BOOLEAN : Validate(data, create)

SpecValidate == Init /\ [][NextValidate]_vars

(***************************************************************************)
(* Repository calls of two threads on the one connection.  _execute_query  *)
(* is two steps: cursor.execute, then conn.commit or conn.rollback.        *)
(***************************************************************************)
\* The repository calls the threads make
InsertCall(name, email) == [kind |-> "create_user", name |-> name, email |-> email]
RenameCall(user_id, name) == [kind |-> "update_user", user_id |-> user_id, name |-> name]

ConcurrentCalls ==
  {InsertCall(NameAl, EmailA), InsertCall(NameBo, EmailA), InsertCall(NameBo, EmailC)}
  \cup {RenameCall(id, NameBlank) : id \in 1..MaxId}

\* The statement of a call run on the table as the connection sees it
Statement(db, sq, op) ==
  IF op.kind = "create_user"
    THEN UserRepository_create_user(db, sq, op.name, op.email,
                                    generate_password_hash(Password1, "s1"))
    ELSE [exc |-> UserRepository_update_user(db, op.user_id, op.name, None, NoneHash).exc,
          db |-> UserRepository_update_user(db, op.user_id, op.name, None, NoneHash).db,
          seq |-> sq]

\* cursor.execute(query, params): sqlite3 opens a transaction before an INSERT
\* or UPDATE when none is open; the statement then changes the connection's
\* view of the table, or fails and changes nothing.
Execute(t, op) ==
  /\ serving
  /\ repo_conn = "open"
  /\ calls[t].pc \in {"idle", "returned"}
  /\ \E r \in {Statement(users, seq, op)} :
       /\ r.seq <= MaxId
       /\ users' = r.db
       /\ seq' = r.seq
       /\ calls' = [calls EXCEPT ![t] = [pc |-> "executed", op |-> op, exc |-> r.exc]]
  /\ txn' = IF txn.open THEN txn ELSE [open |-> TRUE, db |-> users, seq |-> seq]
  /\ UNCHANGED <<issued, now, config_repo, req, resp, ops, repo_conn, serving>>

\* self.conn.commit(): the open transaction of the connection becomes durable
Commit(t) ==
  /\ calls[t].pc = "executed"
  /\ calls[t].exc = "none"
  /\ txn' = NoTxn
  /\ calls' = [calls EXCEPT ![t].pc = "returned"]
  /\ UNCHANGED <<users, seq, issued, now, config_repo, req, resp, ops, repo_conn, serving>>

\* self.conn.rollback(): the open transaction of the connection, whoever's
\* statements it holds, is undone
Rollback(t) ==
  /\ calls[t].pc = "executed"
  /\ calls[t].exc # "none"
  /\ users' = IF txn.open THEN txn.db ELSE users
  /\ seq' = IF txn.open THEN txn.seq ELSE seq
  /\ txn' = NoTxn
  /\ calls' = [calls EXCEPT ![t].pc = "returned"]
  /\ UNCHANGED <<issued, now, config_repo, req, resp, ops, repo_conn, serving>>

NextConcurrent ==
  \/ \E t \in Threads : \E op \in ConcurrentCalls : Execute(t, op)
  \/ \E t \in Threads : Commit(t)
  \/ \E t \in Threads : Rollback(t)

SpecConcurrent == Init /\ [][NextConcurrent]_vars

(***************************************************************************)
(* DELETE and PUT handlers of two threads.  After the token check a        *)
(* handler makes two repository calls, get_user_by_id and then delete_user *)
(* or update_user; each call is one step (its statement and its commit),   *)
(* and another thread may run between the two.                             *)
(***************************************************************************)
DeleteCall(user_id) == [kind |-> "delete_user", user_id |-> user_id]

\* The authenticated DELETE and PUT (a new name) requests the threads serve
RacingRequests ==
  {DeleteCall(id) : id \in 1..MaxId} \cup {RenameCall(id, NameBlank) : id \in 1..MaxId}

\* The users the threads create before they race
RacingInserts == {InsertCall(NameAl, EmailA), InsertCall(NameBo, EmailC)}

\* user_exists = self.usecase.get_user(user_id); if not user_exists: return 404.
\* The SELECT goes through _execute_query, which commits.
CheckExists(t, op) ==
  /\ serving
  /\ repo_conn = "open"
  /\ calls[t].pc \in {"idle", "returned"}
  /\ calls' = [calls EXCEPT ![t] =
       IF UserRepository_get_user_by_id(users, op.user_id) = NoneUser
         THEN [pc |-> "returned", op |-> op, exc |-> "none", status |-> 404, rows |-> 0]
         ELSE [pc |-> "checked", op |-> op, exc |-> "none", status |-> 0, rows |-> 0]]
  /\ txn' = NoTxn
  /\ UNCHANGED <<users, seq, issued, now, config_repo, req, resp, ops, repo_conn, serving>>

\* self.usecase.delete_user(user_id) or update_user(user_id, name, ...), then
\* return 200: the statement runs on the table as it is now, on as many rows as
\* have the id (rows is the statement's rowcount), and is committed.
Act(t) ==
  /\ calls[t].pc = "checked"
  /\ users' = IF calls[t].op.kind = "delete_user"
                THEN UserRepository_delete_user(users, calls[t].op.user_id)
                ELSE UserRepository_update_user(users, calls[t].op.user_id,
                                                calls[t].op.name, None, NoneHash).db
  /\ calls' = [calls EXCEPT ![t] =
       [pc |-> "returned", op |-> calls[t].op, exc |-> "none", status |-> 200,
        rows |-> Cardinality({u \in users : u.id = calls[t].op.user_id})]]
  /\ txn' = NoTxn
  /\ UNCHANGED <<seq, issued, now, config_repo, req, resp, ops, repo_conn, serving>>

NextRace ==
  \/ \E t \in Threads : \E op \in RacingInserts : Execute(t, op)
  \/ \E t \in Threads : Commit(t)
  \/ \E t \in Threads : \E op \in RacingRequests : CheckExists(t, op)
  \/ \E t \in Threads : Act(t)

SpecRace == Init /\ [][NextRace]_vars

(***************************************************************************)
(* Life of the process: requests, then shutdown                            *)
(***************************************************************************)
\* The serving process stops (app.run returns).  No statement of the program
\* runs for the repository of the handlers: nothing calls its
\* close_connection, and close_db_connection only handles the repository kept
\* in app.config.
Shutdown ==
  /\ serving
  /\ req = NoReq
  /\ serving' = FALSE
  /\ UNCHANGED <<users, seq, issued, now, config_repo, req, resp, ops,
                 txn, calls, repo_conn>>

NextLife ==
  \/ \E data \in PathCreateBodies : CreateUser(data, "s1")
  \/ \E data \in AuthLoginBodies : LoginUser(data)
  \/ \E h \in ClientHeaders(issued) : GetAllUsers(h)
  \/ \E h \in ClientHeaders(issued) : \E id \in PathIds : \E data \in AuthUpdateBodies :
       UpdateUser(h, id, data, "s1")
  \/ \E h \in ClientHeaders(issued) : \E id \in PathIds : DeleteUser(h, id)
  \/ Teardown
  \/ Shutdown

SpecLife == Init /\ [][NextLife]_vars

(***************************************************************************)
(* Tokens that outlive or do not belong to the user they act on            *)
(***************************************************************************)
TokenUpdateBodies == { [name |-> NameBo], [email |-> EmailC], [password |-> Password2] }
TokenLoginBodies ==
  { [email |-> EmailA, password |-> Password1],
    [email |-> EmailC, password |-> Password1] }

\* Clients keep the tokens login gave them while users are changed and deleted
NextToken ==
  \/ \E data \in PathCreateBodies : CreateUser(data, "s1")
  \/ \E data \in TokenLoginBodies : LoginUser(data)
  \/ \E tk \in issued : GetAllUsers(Bearer(tk))
  \/ \E tk \in issued : \E id \in PathIds : GetUser(Bearer(tk), id)
  \/ \E tk \in issued : \E id \in PathIds : \E data \in TokenUpdateBodies :
       UpdateUser(Bearer(tk), id, data, "s1")
  \/ \E tk \in issued : \E id \in PathIds : DeleteUser(Bearer(tk), id)
  \/ \E tk \in issued : \E q \in AuthQueries : SearchUsers(Bearer(tk), q)
  \/ Teardown

SpecToken == Init /\ [][NextToken]_vars

(***************************************************************************)
(* Properties                                                              *)
(***************************************************************************)
ProtectedRoutes ==
  {"get_all_users", "get_user", "update_user", "delete_user", "search_users"}

Ids(db) == {u.id : u \in db}

\* C1: after any sequence of create, update and delete requests, failed ones
\* included, no two rows of the users table hold the same email.
C1_EmailUnique ==
  \A u \in users : \A v \in users : u.email = v.email => u = v

\* C1 witness: two rows are stored and a create request has just been refused
\* as a duplicate.
C1_Witness ==
  /\ Cardinality(users) = 2
  /\ req.route = "create_user"
  /\ resp.status = 409

\* The header is exactly "Bearer " followed by one token that is signed with the
\* service key, carries the id and email claims and has not expired at clock t.
CarriesValidToken(headers, t) ==
  /\ "Authorization" \in DOMAIN headers
  /\ \E tk \in issued \cup {ExpiringToken, ForgedToken, NoClaimsToken} :
       /\ headers = Bearer(tk)
       /\ tk.key = JWT_SECRET_KEY
       /\ {"id", "email"} \subseteq DOMAIN tk.payload
       /\ "exp" \in DOMAIN tk.payload => tk.payload["exp"] > t

\* C2: on every protected route a request without a valid token is answered
\* 401 whatever its body, query or target id, and no repository statement is
\* run for it; a request carrying a token returned by login is answered by the
\* handler (never 401) after the handler has run.
C2_TokenGuardsProtectedRoutes ==
  req.route \in ProtectedRoutes =>
    /\ ~CarriesValidToken(req.headers, now) => resp.status = 401 /\ ops = <<>>
    /\ (\E tk \in issued : req.headers = Bearer(tk)) =>
         /\ resp.status \in {200, 400, 404, 409}
         /\ resp.status = 400 \/ ops # <<>>

\* C2 witness: a PUT that names a stored user and carries a changing body, sent
\* with a token signed by another key, has been answered 401.
C2_Witness ==
  /\ req.route = "update_user"
  /\ req.user_id \in Ids(users)
  /\ req.data = [name |-> NameBo]
  /\ req.headers = Bearer(ForgedToken)
  /\ resp.status = 401

\* The stored user whose email and password a login body gives, if any
LoginMatches(db, data) ==
  {u \in db : /\ u.email = Get(data, "email")
              /\ Get(data, "password") # None
              /\ check_password_hash(u.password, Get(data, "password"))}

\* C3: a login with the email and password of a stored user returns a token;
\* a login with a wrong password and a login with an email no user has are
\* both answered 401 with one and the same body.
C3_LoginOutcome ==
  (req.route = "login_user" /\ "json" \notin DOMAIN req.data) =>
    /\ LoginMatches(users, req.data) # {} =>
         /\ resp.status = 200
         /\ DOMAIN resp.body = {"token"}
         /\ resp.body.token \in issued
    /\ (/\ Truthy(Get(req.data, "email"))
        /\ Truthy(Get(req.data, "password"))
        /\ LoginMatches(users, req.data) = {}) =>
         /\ resp.status = 401
         /\ resp.body = [error |-> "Invalid credentials"]

\* The part of C3 that the code keeps: a login is answered with a token exactly
\* when some stored user matches, and every 401 of the login route has the one
\* body, whether the email is unknown or the password wrong.
LoginFailuresAlike ==
  req.route = "login_user" =>
    /\ resp.status = 200 => LoginMatches(users, req.data) # {}
    /\ resp.status = 401 => resp.body = [error |-> "Invalid credentials"]
    /\ (/\ Truthy(Get(req.data, "email"))
        /\ Truthy(Get(req.data, "password"))
        /\ "json" \notin DOMAIN req.data) =>
         resp.status = IF LoginMatches(users, req.data) # {} THEN 200 ELSE 401

\* C9: after any sequence of requests every stored user has a non-empty name
\* and an email in the validated address format.
C9_StoredUsersValid ==
  \A u \in users : Len(Strip(u.name)) > 0 /\ EmailRegexMatch(u.email)

\* A create payload that satisfies every rule of the validator, stated without
\* the validator: the three fields present, a name with a visible character,
\* one of the well-formed addresses, a password of at least eight characters.
WellFormedEmails == {EmailA, EmailC}

ValidCreatePayload(data) ==
  /\ DOMAIN data = {"name", "email", "password"}
  /\ \E i \in 1..Len(data["name"]) : data["name"][i] \notin Whitespace
  /\ data["email"] \in WellFormedEmails
  /\ Len(data["password"]) >= MinPasswordLen

\* C4: a create request whose email is the email of a stored user adds no row,
\* leaves every stored row (id, name, email, password hash) and the id counter
\* as they were, and is answered 409 when its payload passes validation (400,
\* from the validator that runs first, when it does not).
C4_DuplicateCreateRefused ==
  [][(/\ req'.route = "create_user"
      /\ req = NoReq
      /\ \E u \in users : u.email = Get(req'.data, "email"))
     => /\ users' = users
        /\ seq' = seq
        /\ resp'.status = IF ValidCreatePayload(req'.data) THEN 409 ELSE 400]_vars

\* C4 witness: a valid create request with the email of a stored user has been
\* answered 409.
C4_Witness ==
  /\ req.route = "create_user"
  /\ ValidCreatePayload(req.data)
  /\ resp.status = 409
  /\ resp.body = [error |-> "User with this email already exists"]
  /\ \E u \in users : u.email = req.data["email"]

\* The token login returns for the user (id, email)
TokenOf(id, email) == jwt_encode([id |-> id, email |-> email], JWT_SECRET_KEY)

\* C5: a create request with a valid payload whose email is not in the table
\* is answered 201, and a get-by-id of the created user that follows returns
\* the name and the email of the payload.
C5_CreateThenGet ==
  [][(/\ req'.route = "create_user"
      /\ req = NoReq
      /\ ValidCreatePayload(req'.data)
      /\ ~\E u \in users : u.email = req'.data["email"])
     => /\ resp'.status = 201
        /\ LET g == UserController_get_user(users', seq', Bearer(TokenOf(seq', req'.data["email"])),
                                            now', seq')
           IN /\ g.status = 200
              /\ g.body.id = seq + 1
              /\ g.body.name = req'.data["name"]
              /\ g.body.email = req'.data["email"]]_vars

\* C5 witness: a second user has been created with a valid payload.
C5_Witness ==
  /\ req.route = "create_user"
  /\ ValidCreatePayload(req.data)
  /\ resp.status = 201
  /\ Cardinality(users) = 2

\* The passwords clients send
RawPasswords == {Password1, Password2, PasswordShort}

IsUserObject(o) ==
  /\ DOMAIN o = {"id", "name", "email"}
  /\ \E u \in users : o.id = u.id /\ o.name = u.name /\ o.email = u.email
  /\ o.name \notin RawPasswords
  /\ o.email \notin RawPasswords

\* C6: no response body carries a password or a password hash: a user object
\* returned by get, list or search has exactly the fields id, name and email
\* (those of the stored row), and every other body holds only an error or
\* message text, the validator's error list, or a token whose payload is the id
\* and the email.
C6_NoPasswordInResponses ==
  req # NoReq =>
    IF resp.json = "array"
      THEN \A i \in 1..Len(resp.body) : IsUserObject(resp.body[i])
    ELSE IF req.route = "get_user" /\ resp.status = 200
      THEN IsUserObject(resp.body)
    ELSE /\ DOMAIN resp.body \in {{"error"}, {"error", "details"}, {"error", "message"},
                                  {"errors"}, {"message"}, {"token"}}
         /\ "token" \in DOMAIN resp.body =>
              DOMAIN resp.body.token.payload = {"id", "email"}

\* C6 witness: a list request has returned two user objects.
C6_Witness ==
  /\ req.route = "get_all_users"
  /\ resp.status = 200
  /\ Len(resp.body) = 2

\* C10: a PUT answered 200 adds and removes no row, leaves every other row as it
\* was, leaves the id of the target row and each of its fields that the body
\* does not name as they were, and does not move the id counter.
C10_UpdateChangesOnlySuppliedFields ==
  [][(req'.route = "update_user" /\ req = NoReq /\ resp'.status = 200)
     => /\ Ids(users') = Ids(users)
        /\ Cardinality(users') = Cardinality(users)
        /\ seq' = seq
        /\ \A u \in users :
             IF u.id # req'.user_id THEN u \in users'
             ELSE \E v \in users' :
                    /\ v.id = u.id
                    /\ "name" \notin DOMAIN req'.data => v.name = u.name
                    /\ "email" \notin DOMAIN req'.data => v.email = u.email
                    /\ "password" \notin DOMAIN req'.data => v.password = u.password]_vars

\* C10 witness: with two users stored, a PUT that names only the name has been
\* answered 200 and the target row carries the new name.
C10_Witness ==
  /\ req.route = "update_user"
  /\ resp.status = 200
  /\ req.data = [name |-> NameBo]
  /\ Cardinality(users) = 2
  /\ \E u \in users : u.id = req.user_id /\ u.name = NameBo

\* C7: every token login has returned is time-bounded: there is an instant at
\* which the auth middleware rejects it as expired.
C7_IssuedTokensExpire ==
  \A tk \in issued :
    \E t \in 0..(MaxTime + 1) :
      token_required(Bearer(tk), t) = Denied([error |-> "Token has expired"])

\* What follows "Bearer " in an Authorization value
AfterBearer(value) == SubSeq(value, Len(BearerPrefix) + 1, Len(value))

\* The Authorization value is not "Bearer " followed by one token without a
\* space: another scheme, no "Bearer " prefix, or nothing after the prefix.
MalformedValue(value) ==
  \/ ~StartsWith(value, BearerPrefix)
  \/ AfterBearer(value) = <<>>
  \/ \E i \in 1..Len(AfterBearer(value)) : AfterBearer(value)[i] = Ch(" ")

\* C8: the auth middleware answers each failure with its own 401 reason: no
\* Authorization header, 'missing token'; a header with a malformed Bearer
\* prefix (another scheme, or "Bearer " with no token), 'malformed header'; an
\* expired token, 'expired'; a token with a bad signature or structure,
\* 'invalid'.
C8_DistinctReasons ==
  req.route \in ProtectedRoutes =>
    IF "Authorization" \notin DOMAIN req.headers
      THEN resp.status = 401
           /\ resp.body = [error |-> "Authentication Token is missing!"]
    ELSE IF MalformedValue(req.headers["Authorization"])
      THEN resp.status = 401
           /\ resp.body = [error |-> "Malformed Authorization header"]
    ELSE LET tk == AfterBearer(req.headers["Authorization"])[1] IN
      IF "jwt" \notin DOMAIN tk \/ tk.jwt.key # JWT_SECRET_KEY
        THEN resp.status = 401
             /\ resp.body \in {[error |-> "Invalid Token: Not enough segments"],
                               [error |-> "Invalid Token: Signature verification failed"]}
      ELSE ("exp" \in DOMAIN tk.jwt.payload /\ tk.jwt.payload["exp"] <= now)
             => resp.status = 401 /\ resp.body = [error |-> "Token has expired"]

\* The part of C8 that the code keeps: a request without the header and one
\* whose header is malformed get the same 'missing' reason; expired and invalid
\* tokens get reasons of their own.
ReasonsTheCodeGives ==
  req.route \in ProtectedRoutes =>
    IF "Authorization" \notin DOMAIN req.headers
         \/ MalformedValue(req.headers["Authorization"])
      THEN resp.status = 401
           /\ resp.body = [error |-> "Authentication Token is missing!"]
    ELSE LET tk == AfterBearer(req.headers["Authorization"])[1] IN
      IF "jwt" \notin DOMAIN tk \/ tk.jwt.key # JWT_SECRET_KEY
        THEN resp.status = 401
             /\ resp.body \in {[error |-> "Invalid Token: Not enough segments"],
                               [error |-> "Invalid Token: Signature verification failed"]}
      ELSE ("exp" \in DOMAIN tk.jwt.payload /\ tk.jwt.payload["exp"] <= now)
             => resp.status = 401 /\ resp.body = [error |-> "Token has expired"]

\* A PUT payload that satisfies every rule of the validator, stated without the
\* validator: an object naming some of the three fields, each named field
\* well-formed.
ValidUpdatePayload(data) ==
  /\ DOMAIN data # {}
  /\ DOMAIN data \subseteq {"name", "email", "password"}
  /\ "name" \in DOMAIN data =>
       \E i \in 1..Len(data["name"]) : data["name"][i] \notin Whitespace
  /\ "email" \in DOMAIN data => data["email"] \in WellFormedEmails
  /\ "password" \in DOMAIN data => Len(data["password"]) >= MinPasswordLen

\* C11: an authenticated PUT on a stored user whose body gives the email of a
\* different stored user leaves every row (the name and password of the target
\* included) and the id counter as they were, and is answered 409 when its
\* payload passes validation (409 or the validator's 400 when it does not); a
\* valid PUT whose body gives the target's own current email is answered 200
\* and the target keeps that email.
C11_EmailConflictOnUpdate ==
  [][(/\ req'.route = "update_user"
      /\ req = NoReq
      /\ \E tk \in issued : req'.headers = Bearer(tk)
      /\ "email" \in DOMAIN req'.data
      /\ req'.user_id \in Ids(users))
     => /\ (\E v \in users : v.id # req'.user_id /\ v.email = req'.data["email"]) =>
             /\ users' = users
             /\ seq' = seq
             /\ resp'.status \in {400, 409}
             /\ ValidUpdatePayload(req'.data) => resp'.status = 409
        /\ (/\ \E u \in users : u.id = req'.user_id /\ u.email = req'.data["email"]
            /\ ValidUpdatePayload(req'.data)) =>
             /\ resp'.status = 200
             /\ Ids(users') = Ids(users)
             /\ \E v \in users' : v.id = req'.user_id /\ v.email = req'.data["email"]]_vars

\* C11 witness: a PUT on user Al that names a new name, a new password and the
\* email of another user has been answered 409 and Al's row keeps its name.
C11_Witness ==
  /\ req.route = "update_user"
  /\ resp.status = 409
  /\ req.data = User3(NameBo, EmailC, Password1)
  /\ \E u \in users : u.id = req.user_id /\ u.name = NameAl /\ u.email = EmailA
  /\ \E v \in users : v.id # req.user_id /\ v.email = EmailC

\* The search texts that occur in the name of a row
SubstringsOf(name) ==
  {SubSeq(name, i, j) : i \in 1..Len(name), j \in 1..Len(name)} \ {<<>>}

\* The user with this id is in no answer of get, list, search and login on db
AbsentEverywhere(db, sq, headers, t, u) ==
  /\ UserController_get_user(db, sq, headers, t, u.id).status = 404
  /\ LET l == UserController_get_all_users(db, sq, headers, t)
     IN l.status = 200 /\ \A i \in 1..Len(l.body) : l.body[i].id # u.id
  /\ \A text \in SubstringsOf(u.name) \cup {q["name"] : q \in Queries \ {<<>>}} :
       LET f == UserController_search_users(db, sq, headers, t, [name |-> text])
       IN text # <<>> =>
            f.status = 200 /\ \A i \in 1..Len(f.body) : f.body[i].id # u.id
  /\ LET g == UserController_login_user(db, sq,
                 [email |-> u.email, password |-> u.password.digest])
     IN g.status \in {400, 401} /\ g.token = NoneJwt

\* C12: an authenticated DELETE of an id that no row has is answered 404 and
\* leaves table and id counter as they were; an authenticated DELETE of a stored
\* id is answered 200 and removes exactly that row, the same DELETE sent again
\* is answered 404 and changes nothing, and after the first the user is in no
\* answer of get, list, search and login.
C12_DeleteThenGone ==
  [][(/\ req'.route = "delete_user"
      /\ req = NoReq
      /\ \E tk \in issued : req'.headers = Bearer(tk))
     => IF req'.user_id \notin Ids(users)
          THEN resp'.status = 404 /\ users' = users /\ seq' = seq
          ELSE /\ resp'.status = 200
               /\ seq' = seq
               /\ users' = {u \in users : u.id # req'.user_id}
               /\ LET d == UserController_delete_user(users', seq', req'.headers, now',
                                                      req'.user_id)
                  IN d.status = 404 /\ d.db = users' /\ d.seq = seq'
               /\ \A u \in users : u.id = req'.user_id =>
                    AbsentEverywhere(users', seq', req'.headers, now', u)]_vars

\* C12 witness: one of two stored users has been deleted with a 200 and the
\* other is still stored.
C12_Witness ==
  /\ req.route = "delete_user"
  /\ resp.status = 200
  /\ ops = <<"SELECT", "DELETE">>
  /\ req.user_id \notin Ids(users)
  /\ Cardinality(users) = 1

\* C13: an authenticated PUT whose body is the empty object is answered 400
\* without any repository statement, and leaves every row and the id counter
\* as they were, whether or not a row has the path id.
C13_EmptyBodyUpdateRefused ==
  [][(/\ req'.route = "update_user"
      /\ req = NoReq
      /\ \E tk \in issued : req'.headers = Bearer(tk)
      /\ DOMAIN req'.data = {})
     => /\ resp'.status = 400
        /\ users' = users
        /\ seq' = seq
        /\ ops' = <<>>]_vars

\* C13 witness: a PUT with the body {} on an id that no row has, while another
\* user is stored, has been answered 400.
C13_Witness ==
  /\ req.route = "update_user"
  /\ DOMAIN req.data = {}
  /\ resp.status = 400
  /\ users # {}
  /\ req.user_id \notin Ids(users)

\* C14: an authenticated GET, PUT or DELETE on /api/user/{id} whose path
\* segment is not a number is answered 400.
C14_NonNumericIdIs400 ==
  (/\ req # NoReq
   /\ "segment" \in DOMAIN req
   /\ req.method \in UserMethods
   /\ \E tk \in issued : req.headers = Bearer(tk)
   /\ \E i \in 1..Len(req.segment) : req.segment[i] \notin Digits)
  => resp.status = 400

\* What the code does instead: every such request, with or without a token, is
\* answered by the 404 handler, and no handler answers 400 for the id.
NonNumericIdIs404 ==
  (/\ req # NoReq
   /\ "segment" \in DOMAIN req
   /\ \E i \in 1..Len(req.segment) : req.segment[i] \notin Digits)
  => /\ resp.status = 404
     /\ resp.body.error = "Resource Not Found"
     /\ ops = <<>>

\* Two characters are the same up to the case of an ASCII letter
SameLetter(a, b) ==
  a = b \/ \E k \in 1..26 : {a, b} = {UpperCase[k], LowerCase[k]}

\* text occurs in name as a substring, characters compared literally up to case
ContainsIgnoringCase(name, text) ==
  \E i \in 1..(Len(name) - Len(text) + 1) :
    \A k \in 1..Len(text) : SameLetter(name[i + k - 1], text[k])

\* The ids of the user objects of a response body
BodyIds(body) == {body[i].id : i \in 1..Len(body)}

\* C15: an authenticated search with a non-empty text returns exactly the users
\* whose name contains the text as a case-insensitive substring, each once.
C15_SearchIsSubstring ==
  (/\ req.route = "search_users"
   /\ \E tk \in issued : req.headers = Bearer(tk)
   /\ Truthy(Get(req.args, "name")))
  => /\ resp.status = 200
     /\ BodyIds(resp.body) =
          {u.id : u \in {v \in users : ContainsIgnoringCase(v.name, req.args["name"])}}
     /\ Len(resp.body) = Cardinality(BodyIds(resp.body))

\* The part of C15 that the code keeps: the same, for the texts that hold
\* neither "%" nor "_".
SearchIsSubstringWithoutWildcards ==
  (/\ req.route = "search_users"
   /\ \E tk \in issued : req.headers = Bearer(tk)
   /\ Truthy(Get(req.args, "name"))
   /\ \A i \in 1..Len(req.args["name"]) : req.args["name"][i] \notin {"%", "_"})
  => /\ resp.status = 200
     /\ BodyIds(resp.body) =
          {u.id : u \in {v \in users : ContainsIgnoringCase(v.name, req.args["name"])}}
     /\ Len(resp.body) = Cardinality(BodyIds(resp.body))

MissingFieldErrors ==
  {"Name is required.", "Email is required.", "Password is required."}

\* The payload is an object (not null, not an array)
IsObject(data) == "json" \notin DOMAIN data

\* C16: validate never raises; it returns the empty list only if, in create
\* mode, name, email and password are all present and, in either mode, a
\* present email matches the address pattern, a present password has at least
\* 8 characters and a present name is non-blank after trimming; in create mode
\* with one of the three fields absent the result holds only missing-field
\* errors (or the no-data error for an empty payload).
C16_ValidateContract ==
  req.route = "validate" =>
    /\ resp.exc = "none"
    /\ resp.errors = <<>> =>
         /\ IsObject(req.data)
         /\ req.create => {"name", "email", "password"} \subseteq DOMAIN req.data
         /\ "email" \in DOMAIN req.data => EmailRegexMatch(req.data["email"])
         /\ "password" \in DOMAIN req.data =>
              Len(req.data["password"]) >= MinPasswordLen
         /\ "name" \in DOMAIN req.data =>
              \E i \in 1..Len(req.data["name"]) : req.data["name"][i] \notin Whitespace
    /\ (/\ req.create
        /\ IsObject(req.data)
        /\ ~({"name", "email", "password"} \subseteq DOMAIN req.data)) =>
         /\ resp.errors # <<>>
         /\ \/ \A i \in 1..Len(resp.errors) : resp.errors[i] \in MissingFieldErrors
            \/ DOMAIN req.data = {}
                 /\ resp.errors = <<"No data provided in the request body.">>

\* The part of C16 that the code keeps: for object and null payloads the call
\* never raises, and the contract holds when a field counts as present only if
\* its value is a non-empty string.
ValidateContractForNonEmptyFields ==
  (req.route = "validate" /\ ~("json" \in DOMAIN req.data /\ req.data.json = "array")) =>
    /\ resp.exc = "none"
    /\ resp.errors = <<>> =>
         /\ IsObject(req.data)
         /\ req.create => \A k \in {"name", "email", "password"} : Truthy(Get(req.data, k))
         /\ Truthy(Get(req.data, "email")) => EmailRegexMatch(req.data["email"])
         /\ Truthy(Get(req.data, "password")) =>
              Len(req.data["password"]) >= MinPasswordLen
         /\ Truthy(Get(req.data, "name")) =>
              \E i \in 1..Len(req.data["name"]) : req.data["name"][i] \notin Whitespace
    /\ (/\ req.create
        /\ IsObject(req.data)
        /\ \E k \in {"name", "email", "password"} : ~Truthy(Get(req.data, k))) =>
         /\ resp.errors # <<>>
         /\ \/ \A i \in 1..Len(resp.errors) : resp.errors[i] \in MissingFieldErrors
            \/ DOMAIN req.data = {}
                 /\ resp.errors = <<"No data provided in the request body.">>

\* C17: when repository calls of two threads interleave on the shared
\* connection, an INSERT call that returns without error leaves its row
\* committed, and the rollback of a failed call changes nothing of what the
\* connection holds (the failed statement itself changed nothing, so anything
\* undone is the change of another call).
C17_CallsCommitAndRollBackTheirOwn ==
  [][\A t \in Threads :
       (calls[t].pc = "executed" /\ calls'[t].pc = "returned") =>
         IF calls[t].exc = "none"
           THEN /\ ~txn'.open
                /\ calls[t].op.kind = "create_user" =>
                     \E u \in users' : u.email = calls[t].op.email
           ELSE users' = users /\ seq' = seq]_vars

\* C18: every response with a 4xx or 5xx status, whether it comes from a
\* handler, the auth middleware or the error middleware, has a JSON object body
\* with the field error and, besides it, at most message or details.
C18_ErrorShape ==
  (req # NoReq /\ resp.status >= 400) =>
    /\ resp.json = "object"
    /\ "error" \in DOMAIN resp.body
    /\ DOMAIN resp.body \in {{"error"}, {"error", "message"}, {"error", "details"}}

\* The part of C18 that the code keeps: the only error bodies of another shape
\* are the 400 answers of create and update that carry the validator's list
\* under the key errors.
ErrorShapeExceptValidation ==
  (req # NoReq /\ resp.status >= 400) =>
    /\ resp.json = "object"
    /\ \/ DOMAIN resp.body \in {{"error"}, {"error", "message"}, {"error", "details"}}
       \/ /\ req.route \in {"create_user", "update_user"}
          /\ resp.status = 400
          /\ DOMAIN resp.body = {"errors"}
          /\ resp.body.errors = validate_user_payload(req.data, req.route = "create_user")

\* C19: a login whose body is null or the empty object, or whose email or
\* password is absent or empty, is answered 400.
C19_LoginWithoutDataIs400 ==
  (/\ req.route = "login_user"
   /\ \/ "json" \in DOMAIN req.data
      \/ DOMAIN req.data = {}
      \/ ~Truthy(Get(req.data, "email"))
      \/ ~Truthy(Get(req.data, "password")))
  => resp.status = 400

\* The part of C19 that the code keeps: the same for every body that is a JSON
\* object; a null body is answered 500 by the error middleware.
LoginWithoutDataIs400ForObjects ==
  req.route = "login_user" =>
    IF "json" \in DOMAIN req.data
      THEN resp.status = 500 /\ resp.body.error = "An unexpected error occurred"
      ELSE (\/ DOMAIN req.data = {}
            \/ ~Truthy(Get(req.data, "email"))
            \/ ~Truthy(Get(req.data, "password"))) => resp.status = 400

\* C20: the connection the request handlers use is open as long as the process
\* serves requests and is closed once the process has shut down.
C20_ConnectionReleasedAtShutdown ==
  /\ serving => repo_conn = "open"
  /\ ~serving => repo_conn = "closed"

\* What the code does instead: the handlers' connection is never closed, and
\* the connection that close_db_connection closes is the one of the repository
\* in app.config, at the end of the first request.
HandlersConnectionNeverClosed ==
  /\ repo_conn = "open"
  /\ (config_repo = "open" /\ req = NoReq) => users = {} /\ seq = 0 /\ issued = {}

\* C21: whatever has happened to the user since, a token returned by login
\* passes the auth middleware, and a request that carries it on a protected
\* route is answered by the handler (never 401) after the handler has run.
C21_TokensOutliveUsers ==
  /\ \A tk \in issued :
       /\ token_required(Bearer(tk), now).ok
       /\ token_required(Bearer(tk), now).current_user = tk.payload
  /\ (req.route \in ProtectedRoutes /\ \E tk \in issued : req.headers = Bearer(tk)) =>
       /\ resp.status \in {200, 400, 404, 409}
       /\ resp.status = 400 \/ ops # <<>>

\* C21 witness: a list request that carries the token of a user who has been
\* deleted since, while another user is stored, has been answered 200.
C21_Witness ==
  /\ req.route = "get_all_users"
  /\ resp.status = 200
  /\ users # {}
  /\ \E tk \in issued : /\ req.headers = Bearer(tk)
                         /\ tk.payload["id"] \notin Ids(users)

\* The answer of the handler of a protected route to the request rq sent with
\* other headers
HandlerResult(db, sq, t, rq, headers) ==
  IF rq.route = "get_all_users"
    THEN UserController_get_all_users(db, sq, headers, t)
  ELSE IF rq.route = "get_user"
    THEN UserController_get_user(db, sq, headers, t, rq.user_id)
  ELSE IF rq.route = "update_user"
    THEN UserController_update_user(db, sq, headers, t, rq.user_id, rq.data, "s1")
  ELSE IF rq.route = "delete_user"
    THEN UserController_delete_user(db, sq, headers, t, rq.user_id)
  ELSE UserController_search_users(db, sq, headers, t, rq.args)

\* Tokens login can mint: every id with every email
MintableTokens ==
  {TokenOf(id, email) : id \in PathIds, email \in {EmailA, EmailC}}

\* C22: the answer to a protected request and its effect on the store do not
\* depend on whose token it carries: the same request sent with the token of
\* any other user gets the same status and body and leaves the same table, id
\* counter and statements.
C22_TokenIdentityUnused ==
  [][(/\ req = NoReq
      /\ req'.route \in ProtectedRoutes
      /\ \E tk \in issued : req'.headers = Bearer(tk))
     => \A other \in MintableTokens :
          LET r == HandlerResult(users, seq, now, req', Bearer(other))
          IN /\ r.status = resp'.status
             /\ r.body = resp'.body
             /\ r.db = users'
             /\ r.seq = seq'
             /\ r.ops = ops']_vars

\* C22 witness: a DELETE that carries the token of one user has removed
\* another user and was answered 200.
C22_Witness ==
  /\ req.route = "delete_user"
  /\ resp.status = 200
  /\ req.user_id \notin Ids(users)
  /\ \E tk \in issued : /\ req.headers = Bearer(tk)
                         /\ tk.payload["id"] # req.user_id
                         /\ tk.payload["id"] \in Ids(users)

\* The thread has answered a DELETE or PUT request
Answered(t) == calls[t].pc = "returned" /\ "status" \in DOMAIN calls[t]

\* C23: when DELETE and PUT requests of two threads interleave, no two DELETEs
\* of one id are both answered 200 (an id is never handed out twice, so one of
\* them found the row and the other must get 404), and a PUT answered 200 has
\* run its UPDATE on a row that existed.
C23_ExistenceCheckDecides ==
  /\ \A t \in Threads : \A o \in Threads \ {t} :
       (/\ Answered(t) /\ Answered(o)
        /\ calls[t].op = calls[o].op
        /\ calls[t].op.kind = "delete_user")
       => ~(calls[t].status = 200 /\ calls[o].status = 200)
  /\ \A t \in Threads :
       (Answered(t) /\ calls[t].op.kind = "update_user" /\ calls[t].status = 200)
       => calls[t].rows = 1

\* The part of C23 that the code keeps: a 404 is answered only when no row has
\* the id at the time of the check, and when a DELETE is answered 200 no row
\* with the id is left.
NotFoundOnlyWhenAbsent ==
  [][\A t \in Threads :
       (calls'[t] # calls[t] /\ calls'[t].pc = "returned" /\ "status" \in DOMAIN calls'[t]) =>
         /\ calls'[t].status = 404 => calls'[t].op.user_id \notin Ids(users)
         /\ (calls'[t].status = 200 /\ calls'[t].op.kind = "delete_user")
              => calls'[t].op.user_id \notin Ids(users')]_vars

====
